---------------------------- MODULE Spec2Model ----------------------------
(***************************************************************************)
(* Package memo (src/8_channels/reverb/reverb.go, lines 81-184): a         *)
(* concurrent non-blocking cache built around a monitor goroutine.         *)
(*                                                                         *)
(* Goroutines of the model: the callers of Get (Clients), the callers of   *)
(* Close, the monitor goroutine (Memo.server), one call goroutine per      *)
(* entry and one deliver goroutine per request.  Channels m.requests and   *)
(* response are unbuffered: a send and its receive are one joint step.     *)
(* A run-time panic (send on a closed channel, close of a closed channel)  *)
(* is not recovered anywhere in the package, so it ends the program.       *)
(***************************************************************************)
EXTENDS Naturals, Sequences, FiniteSets

\* ----- bounds of the model
NumClients == 2   \* goroutines that call Get
MaxGets    == 3   \* calls of Get, all clients together
MaxCloses  == 2   \* calls of Close

Clients == 1..NumClients

\* Two distinct keys: the keys are strings the package never inspects.
Keys == {1, 2}

\* ----- values
\* result{value, err}: the zero value of the struct (reverb.go:90-93).
ZeroResult == [value |-> 0, err |-> "nil"]

\* What one invocation of the memoized Func may return for key k: a value
\* for the key with a nil error, or a nil value with an error.  Func is
\* supplied by the client, so each invocation chooses freely.
FuncResults(k) == {[value |-> k, err |-> "nil"], [value |-> 0, err |-> "boom"]}

VARIABLES
    closed,       \* m.requests has been closed
    closeCalls,   \* number of calls of Close so far
    panic,        \* "none", or the run-time panic that ended the program
    spc,          \* monitor goroutine: "loop" (at the range receive) or "done"
    cache,        \* server's local map: key -> entry, NoEntry for nil
    entries,      \* the allocated entry structs: entry -> [res, ready]
    callTasks,    \* the goroutines started by `go e.call(f, key)`
    deliverTasks, \* the running goroutines started by `go e.deliver(req.response)`
    pc,           \* position of each client in or out of Get
    key,          \* the key argument of the client's current Get
    ngets,        \* number of Get calls the client has made
    got,          \* the result the client's Get received from response
    afterClose,   \* history: the client's current Get began after Close returned
    found,        \* history: what the server found in the cache for the request
    received,     \* history: the keys of the requests the server has received
    invoked,      \* history: number of invocations of f per key
    produced,     \* history: the results f has returned, per key
    returned      \* history: the results Get has returned, per key

vars == <<closed, closeCalls, panic, spc, cache, entries, callTasks,
          deliverTasks, pc, key, ngets, got, afterClose, found,
          received, invoked, produced, returned>>

memoState == <<closed, closeCalls, spc, cache, entries, callTasks, deliverTasks>>
clientState == <<pc, key, ngets, got, afterClose, found>>
history == <<received, invoked, produced, returned>>

\* ----- package intset (src/5_functions/recover/soletitle.go, lines 46-193)
VARIABLES
    setS,         \* s.words of the IntSet s: a sequence of words
    setT,         \* t.words of the IntSet t
    setPre,       \* history: <<s.words, t.words>> before the last operation
    setOp,        \* history: the last operation, [name, x]
    setPanic      \* the last operation panicked (index out of range)

setVars == <<setS, setT, setPre, setOp, setPanic>>

\* The zero value of IntSet is the empty set: no words.
SetInit ==
    /\ setS = << >>
    /\ setT = << >>
    /\ setPre = << << >>, << >> >>
    /\ setOp = [name |-> "none", x |-> 0]
    /\ setPanic = FALSE

\* Each program runs on its own: a step of one leaves the variables of the
\* others alone.
\* Package eval (src/7_interfaces/eval): the test's Check of an expression.
VARIABLES
    evExpr,       \* the expression the test last checked, NoExpr before
    evErr,        \* the error Check returned for it, NoError for nil
    evVars        \* the vars map Check filled: the set of Vars it marked

evalVars == <<evExpr, evErr, evVars>>

NoExpr == [type |-> "none"]
NoError == "nil"

EvalInit ==
    /\ evExpr = NoExpr
    /\ evErr = NoError
    /\ evVars = {}

\* Package storage (src/unnamed/part_004): usage, and the calls of notifyUser.
VARIABLES
    usage,        \* the usage map: username -> bytes in use
    checked,      \* the username of the last CheckQuota call, "" before
    notified      \* the calls of notifyUser made by that call, in order

quotaVars == <<usage, checked, notified>>

Usernames == {"jane@example.org", "bob@example.org"}

\* A byte count (int64) is kept as <<hi, lo>>, hi * 10^7 + lo with
\* lo < 10^7, so that every intermediate value fits in 32 bits.
ZeroBytes == <<0, 0>>

\* usage is an empty map: bytesInUse reads 0 for every username.
QuotaInit ==
    /\ usage = [u \in Usernames |-> ZeroBytes]
    /\ checked = ""
    /\ notified = << >>

\* Chat server (src/8_channels/chat/chat.go): connections and input lines.
NumConns == 2
MaxLines == 1
Conns == 1..NumConns

VARIABLES
    clients,      \* broadcaster's local map: the set of client channels
    bpc,          \* broadcaster: "select", or "range" inside the broadcast loop
    bmsg,         \* the msg the broadcaster last received on messages
    btodo,        \* the clients the range loop has yet to visit
    hpc,          \* position of each connection's handleConn
    nlines,       \* input lines handleConn has read from the connection
    wpc,          \* position of each connection's ClientWriter
    chClosed,     \* the connection's outgoing channel ch has been closed
    sentTo,       \* history: what the current broadcast sent on each ch
    atReceipt     \* history: the connections entered and not left at receipt

chatVars == <<clients, bpc, bmsg, btodo, hpc, nlines, wpc, chClosed, sentTo, atReceipt>>

NoMsg == <<0, "none">>

ChatInit ==
    /\ clients = {}
    /\ bpc = "select"
    /\ bmsg = NoMsg
    /\ btodo = {}
    /\ hpc = [c \in Conns |-> "idle"]
    /\ nlines = [c \in Conns |-> 0]
    /\ wpc = [c \in Conns |-> "idle"]
    /\ chClosed = [c \in Conns |-> FALSE]
    /\ sentTo = [c \in Conns |-> << >>]
    /\ atReceipt = {}

\* du (src/8_channels/du/du.go, main1 and main).  The roots on the command
\* line are directories of three shapes: "flat" holds one file, "nested"
\* holds a subdirectory "sub" (one file) and one file, "empty" holds nothing
\* (or cannot be read: dirents returns nil).
NumRoots == 21
MaxArgs == 2

RootKinds == {"flat", "nested", "empty"}
DirKinds == RootKinds \cup {"sub"}

\* The result of ioutil.ReadDir for a directory of each shape.
DirEntries(kind) ==
    CASE kind = "flat" -> <<"file">>
      [] kind = "nested" -> <<"dir", "file">>
      [] kind = "sub" -> <<"file">>
      [] kind = "empty" -> << >>

\* entry.Size() of the file in a directory of each shape.
FileSize(kind) ==
    CASE kind = "flat" -> 1
      [] kind = "nested" -> 2
      [] kind = "sub" -> 3

\* A call of walkDir or parallelWalkDir is <<shape of dir, phase, index>>:
\* started, inside ioutil.ReadDir, or in the range loop before entry `index`.
WalkerStates ==
    {<<k, ph, 0>> : k \in DirKinds, ph \in {"start", "reading"}}
        \cup UNION {{<<k, "range", i>> : i \in 1..(Len(DirEntries(k)) + 1)} : k \in DirKinds}

NoRoots == [k \in RootKinds |-> 0]

VARIABLES
    prog,         \* the function that runs as du's main: "main1" or "main"; "none" before
    dpc,          \* du's main1 or main: "args", "go", "range", "spawn", "loop", "done"
    args,         \* roots as parsed from the command line: shape -> count
    roots,        \* roots whose walk has yet to start: shape -> count
    walkers,      \* the running parallelWalkDir goroutines: state -> count
    stack,        \* main1's background goroutine: its walkDir calls, innermost last
    wg,           \* the counter of the WaitGroup n
    cpc,          \* the background goroutine: "none", "walk", "wait", "close", "done"
    fsClosed,     \* fileSizes has been closed
    nfiles,       \* main's nfiles
    nbytes        \* main's nbytes

duVars == <<prog, dpc, args, roots, walkers, stack, wg, cpc, fsClosed, nfiles, nbytes>>

Programs == {"main1", "main"}

DuInit ==
    /\ prog = "none"
    /\ dpc = "args"
    /\ args = NoRoots
    /\ roots = NoRoots
    /\ walkers = [ws \in WalkerStates |-> 0]
    /\ stack = << >>
    /\ wg = 0
    /\ cpc = "none"
    /\ fsClosed = FALSE
    /\ nfiles = 0
    /\ nbytes = 0

\* Web crawler (src/8_channels/clock/clock.go, lines 91-177).  The links
\* are 1..NumLinks on the command line and one more that only pages name.
NumLinks == 20
NewLink == NumLinks + 1

\* What links.Extract can return for a page: nothing (or an error), or a
\* link already on the command line together with the new one.
FoundLists == {<< >>, <<1, NewLink>>}

\* A crawler goroutine is at the range receive, before `tokens <-`, inside
\* links.Extract, or before `<-tokens`.
CrawlerStates == {"idle", "acquire", "extract", "release"}

VARIABLES
    kpc,          \* crawler's main: "start", "recv" (range worklist) or "list"
    argsSender,   \* the list `go func() { worklist <- os.Args[1:] }()` still holds
    list,         \* the rest of the list main is ranging over
    seen,         \* main's seen map: the set of links marked
    crawlers,     \* the 20 crawler goroutines: state -> count
    senders,      \* the pending `worklist <- foundLinks` goroutines: list -> count
    tokens        \* the number of tokens in the tokens channel

crawlVars == <<kpc, argsSender, list, seen, crawlers, senders, tokens>>

NoList == <<0>>

CrawlInit ==
    /\ kpc = "start"
    /\ argsSender = NoList
    /\ list = << >>
    /\ seen = {}
    /\ crawlers = [cs \in CrawlerStates |-> 0]
    /\ senders = [l \in FoundLists |-> 0]
    /\ tokens = 0

allVars == <<vars, setVars, evalVars, quotaVars, chatVars, duVars, crawlVars>>
notMemo == <<setVars, evalVars, quotaVars, chatVars, duVars, crawlVars>>
notSet == <<vars, evalVars, quotaVars, chatVars, duVars, crawlVars>>
notEval == <<vars, setVars, quotaVars, chatVars, duVars, crawlVars>>
notQuota == <<vars, setVars, evalVars, chatVars, duVars, crawlVars>>
notChat == <<vars, setVars, evalVars, quotaVars, duVars, crawlVars>>
notDu == <<vars, setVars, evalVars, quotaVars, chatVars, crawlVars>>
notCrawl == <<vars, setVars, evalVars, quotaVars, chatVars, duVars>>

Running == panic = "none"

\* An entry pointer: the key it was made for and its number among the
\* entries made for that key.  NoEntry is nil.
NoEntry == <<0, 0>>
EntriesOf(k) == {e \in DOMAIN entries : e[1] = k}
\* Variant of the allocation below: one entry struct serves every key.
NewEntryShared(k) == <<1, 1>>
NewEntry(k) == <<k, Cardinality(EntriesOf(k)) + 1>>

\* The response channel made by client c's current Get.
Response(c) == <<c, ngets[c]>>

RECURSIVE Sum(_, _)
Sum(f, S) == IF S = {} THEN 0
             ELSE LET x == CHOOSE y \in S : TRUE IN f[x] + Sum(f, S \ {x})

\* New (reverb.go:109-113): an open requests channel, the server started
\* with an empty cache; no client is inside Get.
Init ==
    /\ closed = FALSE
    /\ closeCalls = 0
    /\ panic = "none"
    /\ spc = "loop"
    /\ cache = [k \in Keys |-> NoEntry]
    /\ entries = << >>
    /\ callTasks = {}
    /\ deliverTasks = {}
    /\ pc = [c \in Clients |-> "idle"]
    /\ key = [c \in Clients |-> 1]
    /\ ngets = [c \in Clients |-> 0]
    /\ got = [c \in Clients |-> ZeroResult]
    /\ afterClose = [c \in Clients |-> FALSE]
    /\ found = [c \in Clients |-> "none"]
    /\ received = {}
    /\ invoked = [k \in Keys |-> 0]
    /\ produced = [k \in Keys |-> {}]
    /\ returned = [k \in Keys |-> {}]

\* ----- Memo.Get (reverb.go:120-125)

\* Get is called with key k: `response := make(chan result)`.
GetBegin(c, k) ==
    /\ Running
    /\ pc[c] \in {"idle", "returned"}
    /\ Sum(ngets, Clients) < MaxGets
    /\ ngets' = [ngets EXCEPT ![c] = @ + 1]
    /\ pc' = [pc EXCEPT ![c] = "send"]
    /\ key' = [key EXCEPT ![c] = k]
    /\ got' = [got EXCEPT ![c] = ZeroResult]
    /\ afterClose' = [afterClose EXCEPT ![c] = closed]
    /\ found' = [found EXCEPT ![c] = "none"]
    /\ UNCHANGED <<memoState, panic, history>>
    /\ UNCHANGED notMemo

\* `m.requests <- request{key, response}` on a closed channel panics.
GetSendPanic(c) ==
    /\ Running
    /\ pc[c] = "send"
    /\ closed
    /\ pc' = [pc EXCEPT ![c] = "panicked"]
    /\ panic' = "send on closed channel"
    /\ UNCHANGED <<memoState, key, ngets, got, afterClose, found, history>>
    /\ UNCHANGED notMemo

\* ----- Memo.Close (reverb.go:128-130)
\* close(m.requests); closing a closed channel panics.
Close ==
    /\ Running
    /\ closeCalls < MaxCloses
    /\ closeCalls' = closeCalls + 1
    /\ IF closed
         THEN panic' = "close of closed channel" /\ closed' = closed
         ELSE closed' = TRUE /\ panic' = panic
    /\ UNCHANGED <<spc, cache, entries, callTasks, deliverTasks, clientState, history>>
    /\ UNCHANGED notMemo

\* ----- Memo.server (reverb.go:137-149)

\* Variants of the test below: the cache is never consulted; a cached error
\* is retried.
IsFirstRequestNoLookup(k) == TRUE
IsFirstRequestRetryError(k) ==
    \/ cache[k] = NoEntry
    \/ entries[cache[k]].ready /\ entries[cache[k]].res.err # "nil"

\* `e == nil`: no entry for the key yet.
IsFirstRequest(k) == cache[k] = NoEntry

\* Variant of the loop head below: e.call runs in the server goroutine, which
\* is back at the receive only when no call is unfinished.
ServerReceivingAfterCall ==
    /\ spc = "loop"
    /\ \A t \in callTasks : t.pc = "done"

\* Variant of the loop head below: e.deliver runs in the server goroutine,
\* which is back at the receive only when no deliver is unfinished.
ServerReceivingAfterDeliver ==
    /\ spc = "loop"
    /\ deliverTasks = {}

\* The server is at `for req := range m.requests`, ready to receive.
ServerReceiving == spc = "loop"

\* Variants of the deliver started below: the deliver waits on an entry
\* looked up with a fixed key; a deliver is started only with a new entry.
NewDeliverTasksFixedKey(c, e) ==
    {[e |-> IF cache[1] # NoEntry THEN cache[1] ELSE e,
      response |-> Response(c), pc |-> "wait"]}
NewDeliverTasksNewOnly(c, e) ==
    IF e \notin DOMAIN entries
      THEN {[e |-> e, response |-> Response(c), pc |-> "wait"]}
      ELSE {}

\* The goroutine started by `go e.deliver(req.response)` for the request of
\* client c.
NewDeliverTasks(c, e) == {[e |-> e, response |-> Response(c), pc |-> "wait"]}

\* One iteration of the loop: receive the request client c is sending,
\* consult the cache, create and insert an entry and start its call if
\* there is none, start a deliver for the request.
ServerHandle(c) ==
    /\ Running
    /\ ServerReceiving
    /\ ~closed
    /\ pc[c] = "send"
    /\ pc' = [pc EXCEPT ![c] = "recv"]
    /\ LET k == key[c]
           first == IsFirstRequest(k)
           e == IF first THEN NewEntry(k) ELSE cache[k]
       IN  /\ IF first
                THEN /\ entries' = [x \in DOMAIN entries \cup {e} |->
                            IF x = e THEN [res |-> ZeroResult, ready |-> FALSE]
                            ELSE entries[x]]
                     /\ cache' = [cache EXCEPT ![k] = e]
                     /\ callTasks' = callTasks \cup
                            {[e |-> e, key |-> k, pc |-> "start", ret |-> ZeroResult]}
                ELSE UNCHANGED <<entries, cache, callTasks>>
           /\ found' = [found EXCEPT ![c] =
                            IF first THEN "new"
                            ELSE IF entries[e].ready THEN "ready" ELSE "pending"]
           /\ deliverTasks' = deliverTasks \cup NewDeliverTasks(c, e)
           /\ received' = received \cup {k}
    /\ UNCHANGED <<closed, closeCalls, panic, spc, key, ngets, got,
                   afterClose, invoked, produced, returned>>
    /\ UNCHANGED notMemo

\* Variant of the exit below: the loop does not notice the close; the
\* server stays in it.
ServerExitNever ==
    /\ Running
    /\ spc = "loop"
    /\ closed
    /\ UNCHANGED vars
    /\ UNCHANGED notMemo

\* The range loop ends once m.requests is closed.
ServerExit ==
    /\ Running
    /\ spc = "loop"
    /\ closed
    /\ spc' = "done"
    /\ UNCHANGED <<closed, closeCalls, panic, cache, entries, callTasks,
                   deliverTasks, clientState, history>>
    /\ UNCHANGED notMemo

\* ----- entry.call (reverb.go:168-173)

\* Task t of a set of goroutines moves on to be task u.
Step(tasks, t, u) == (tasks \ {t}) \cup {u}

\* The goroutine starts and invokes f(key).
CallInvoke(t) ==
    /\ Running
    /\ t \in callTasks
    /\ t.pc = "start"
    /\ callTasks' = Step(callTasks, t, [t EXCEPT !.pc = "inf"])
    /\ invoked' = [invoked EXCEPT ![t.key] = @ + 1]
    /\ UNCHANGED <<closed, closeCalls, panic, spc, cache, entries, deliverTasks,
                   clientState, received, produced, returned>>
    /\ UNCHANGED notMemo

\* f(key) returns r.
FuncReturn(t) ==
    /\ Running
    /\ t \in callTasks
    /\ t.pc = "inf"
    /\ \E r \in FuncResults(t.key) :
          /\ callTasks' = Step(callTasks, t, [t EXCEPT !.pc = "store", !.ret = r])
          /\ produced' = [produced EXCEPT ![t.key] = @ \cup {r}]
    /\ UNCHANGED <<closed, closeCalls, panic, spc, cache, entries, deliverTasks,
                   clientState, received, invoked, returned>>
    /\ UNCHANGED notMemo

\* `e.res.value, e.res.err = ...`: the result is stored in the entry.
CallStore(t) ==
    /\ Running
    /\ t \in callTasks
    /\ t.pc = "store"
    /\ entries' = [entries EXCEPT ![t.e].res = t.ret]
    /\ callTasks' = Step(callTasks, t, [t EXCEPT !.pc = "close"])
    /\ UNCHANGED <<closed, closeCalls, panic, spc, cache, deliverTasks,
                   clientState, history>>
    /\ UNCHANGED notMemo

\* Variants of the close below: after the close the goroutine evaluates f
\* again; the goroutine repeats the close.
CallCloseReadyThenRetry(t) ==
    /\ Running
    /\ t \in callTasks
    /\ t.pc = "close"
    /\ callTasks' = Step(callTasks, t, [t EXCEPT !.pc = "inf"])
    /\ entries' = [entries EXCEPT ![t.e].ready = TRUE]
    /\ UNCHANGED <<closed, closeCalls, panic, spc, cache, deliverTasks,
                   clientState, history>>
    /\ UNCHANGED notMemo
CallCloseReadyTwice(t) ==
    /\ Running
    /\ t \in callTasks
    /\ t.pc = "close"
    /\ IF entries[t.e].ready
         THEN /\ panic' = "close of closed channel"
              /\ UNCHANGED <<entries, callTasks>>
         ELSE /\ entries' = [entries EXCEPT ![t.e].ready = TRUE]
              /\ UNCHANGED <<panic, callTasks>>
    /\ UNCHANGED <<closed, closeCalls, spc, cache, deliverTasks, clientState, history>>
    /\ UNCHANGED notMemo

\* `close(e.ready)`; closing a closed channel panics.
CallCloseReady(t) ==
    /\ Running
    /\ t \in callTasks
    /\ t.pc = "close"
    /\ callTasks' = Step(callTasks, t, [t EXCEPT !.pc = "done"])
    /\ IF entries[t.e].ready
         THEN panic' = "close of closed channel" /\ entries' = entries
         ELSE /\ entries' = [entries EXCEPT ![t.e].ready = TRUE]
              /\ panic' = panic
    /\ UNCHANGED <<closed, closeCalls, spc, cache, deliverTasks, clientState, history>>
    /\ UNCHANGED notMemo

\* ----- entry.deliver (reverb.go:179-184)

\* Variant of the wait below: deliver does not wait for ready.
ReadyReceivableAlways(e) == TRUE

\* `<-e.ready` can proceed: the channel has been closed.
ReadyReceivable(e) == entries[e].ready

\* Variant of the wait below: deliver removes its entry from the cache map.
DeliverWaitEvict(t) ==
    /\ Running
    /\ t \in deliverTasks
    /\ t.pc = "wait"
    /\ ReadyReceivable(t.e)
    /\ deliverTasks' = Step(deliverTasks, t, [t EXCEPT !.pc = "send"])
    /\ cache' = [cache EXCEPT ![t.e[1]] = NoEntry]
    /\ UNCHANGED <<closed, closeCalls, panic, spc, entries, callTasks,
                   clientState, history>>
    /\ UNCHANGED notMemo

\* Wait for the ready condition.
DeliverWait(t) ==
    /\ Running
    /\ t \in deliverTasks
    /\ t.pc = "wait"
    /\ ReadyReceivable(t.e)
    /\ deliverTasks' = Step(deliverTasks, t, [t EXCEPT !.pc = "send"])
    /\ UNCHANGED <<closed, closeCalls, panic, spc, cache, entries, callTasks,
                   clientState, history>>
    /\ UNCHANGED notMemo

\* Variant of the send below: deliver sends in a loop, so the goroutine is
\* still there, about to send again, after the client has its reply.
DeliverSendAgain(t) ==
    /\ Running
    /\ t \in deliverTasks
    /\ t.pc = "send"
    /\ \E c \in Clients :
          /\ pc[c] = "recv"
          /\ Response(c) = t.response
          /\ got' = [got EXCEPT ![c] = entries[t.e].res]
          /\ returned' = [returned EXCEPT ![key[c]] = @ \cup {entries[t.e].res}]
          /\ pc' = [pc EXCEPT ![c] = "returned"]
    /\ UNCHANGED <<closed, closeCalls, panic, spc, cache, entries, callTasks,
                   deliverTasks, key, ngets, afterClose, found, received,
                   invoked, produced>>
    /\ UNCHANGED notMemo

\* `response <- e.res` meets `res := <-response` of the client that made the
\* channel; Get returns res.value, res.err and the deliver goroutine ends.
DeliverSend(t) ==
    /\ Running
    /\ t \in deliverTasks
    /\ t.pc = "send"
    /\ \E c \in Clients :
          /\ pc[c] = "recv"
          /\ Response(c) = t.response
          /\ got' = [got EXCEPT ![c] = entries[t.e].res]
          /\ returned' = [returned EXCEPT ![key[c]] = @ \cup {entries[t.e].res}]
          /\ pc' = [pc EXCEPT ![c] = "returned"]
    /\ deliverTasks' = deliverTasks \ {t}
    /\ UNCHANGED <<closed, closeCalls, panic, spc, cache, entries, callTasks,
                   key, ngets, afterClose, found, received, invoked, produced>>
    /\ UNCHANGED notMemo

\* ----- the program
Next ==
    \/ \E c \in Clients, k \in Keys : GetBegin(c, k)
    \/ \E c \in Clients : GetSendPanic(c)
    \/ Close
    \/ \E c \in Clients : ServerHandle(c)
    \/ ServerExit
    \/ \E t \in callTasks : CallInvoke(t)
    \/ \E t \in callTasks : FuncReturn(t)
    \/ \E t \in callTasks : CallStore(t)
    \/ \E t \in callTasks : CallCloseReady(t)
    \/ \E t \in deliverTasks : DeliverWait(t)
    \/ \E t \in deliverTasks : DeliverSend(t)

\* The other programs, not started.
NotMemoInit ==
    SetInit /\ EvalInit /\ QuotaInit /\ ChatInit /\ DuInit /\ CrawlInit

\* Every program in its initial state.
AllInit == Init /\ NotMemoInit

Spec == AllInit /\ [][Next]_allVars

CallsFor(k) == {t \in callTasks : t.key = k}
DeliversFor(c) == {t \in deliverTasks : t.response[1] = c}

\* The program while no client calls Close.
OpenNext ==
    \/ \E c \in Clients, k \in Keys : GetBegin(c, k)
    \/ \E c \in Clients : ServerHandle(c)
    \/ \E t \in callTasks : CallInvoke(t)
    \/ \E t \in callTasks : FuncReturn(t)
    \/ \E t \in callTasks : CallStore(t)
    \/ \E t \in callTasks : CallCloseReady(t)
    \/ \E t \in deliverTasks : DeliverWait(t)
    \/ \E t \in deliverTasks : DeliverSend(t)

\* Scheduling: every goroutine that can take a step eventually takes it, and
\* a sender blocked on m.requests is eventually served (the senders of a
\* channel wait in a queue).  A call or deliver goroutine has one step enabled
\* at a time, so fairness is stated for its steps together.  Calls of Get
\* and Close are up to the clients; the return of f is up to f.
Fairness ==
    /\ \A c \in Clients :
          /\ WF_vars(ServerHandle(c))
          /\ WF_vars(GetSendPanic(c))
          /\ WF_vars(\E t \in DeliversFor(c) : DeliverWait(t) \/ DeliverSend(t))
    /\ WF_vars(ServerExit)
    /\ \A k \in Keys :
          WF_vars(\E t \in CallsFor(k) :
                     CallInvoke(t) \/ CallStore(t) \/ CallCloseReady(t))

\* Every invocation of f returns.
FuncReturns == \A k \in Keys : WF_vars(\E t \in CallsFor(k) : FuncReturn(t))

\* The program under fair scheduling, f free never to return.
FairSpec == Spec /\ Fairness

\* Close never called, fair scheduling, f free never to return.
OpenFairSpec == AllInit /\ [][OpenNext]_allVars /\ Fairness

\* Close never called, fair scheduling, every invocation of f returns.
OpenFairSpecReturning == OpenFairSpec /\ FuncReturns

\* The client whose Get does not take its reply, and the others.
StuckClient == CHOOSE c \in Clients : TRUE
OtherClients == Clients \ {StuckClient}

\* Scheduling as in Fairness, except that the deliver goroutines of
\* StuckClient may wait for ever: nothing obliges their hand-off to happen.
StuckFairness ==
    /\ \A c \in Clients : WF_vars(ServerHandle(c))
    /\ \A c \in OtherClients :
          WF_vars(\E t \in DeliversFor(c) : DeliverWait(t) \/ DeliverSend(t))
    /\ \A k \in Keys :
          WF_vars(\E t \in CallsFor(k) :
                     CallInvoke(t) \/ FuncReturn(t) \/ CallStore(t) \/ CallCloseReady(t))

\* Close never called, every invocation of f returns, the replies to
\* StuckClient free never to be handed off.
StuckDeliverSpec == AllInit /\ [][OpenNext]_allVars /\ StuckFairness

\* The program with Close, the server goroutine scheduled fairly: once the
\* range loop can end, it ends.
ExitFairSpec == Spec /\ WF_vars(ServerExit)

\* ----- auxiliary definitions of the properties
InGet(c) == pc[c] \in {"send", "recv"}
KeyReady(k) == cache[k] # NoEntry /\ entries[cache[k]].ready
KeyInFlight(k) == \E t \in CallsFor(k) : t.pc = "inf"
CallOf(e) == {t \in callTasks : t.e = e}

\* C1: f is invoked at most once per key; once the server has received a
\* request for k there is exactly one call of f for k (started or about to
\* start), before that none, and later requests never add one.
C1_AtMostOnce ==
    \A k \in Keys :
        /\ invoked[k] <= 1
        /\ Cardinality(CallsFor(k)) = (IF k \in received THEN 1 ELSE 0)
        /\ \A t \in CallsFor(k) : (t.pc # "start") <=> (invoked[k] = 1)
        /\ k \notin received => invoked[k] = 0

\* A later Get(k) was served from the cache: two requests, one invocation.
C1_Witness ==
    \E c \in Clients :
        /\ pc[c] = "returned" /\ found[c] = "ready"
        /\ ngets[c] >= 2 /\ invoked[key[c]] = 1

\* C2: every Get(k) that returns, returns the pair the single invocation of
\* f(k) produced, so all Get(k) return the same pair.
C2_SameResult ==
    /\ \A k \in Keys : returned[k] \subseteq produced[k] /\ Cardinality(returned[k]) <= 1
    /\ \A c \in Clients : pc[c] = "returned" => got[c] \in produced[key[c]]

\* Two concurrent Get of one key have both returned, with the same pair.
C2_Witness ==
    \E c1, c2 \in Clients :
        /\ c1 # c2 /\ key[c1] = key[c2]
        /\ pc[c1] = "returned" /\ pc[c2] = "returned"
        /\ found[c1] = "new" /\ found[c2] = "pending"
        /\ got[c1] = got[c2] /\ got[c1] \in FuncResults(key[c1])

\* C3: when every invocation of f returns, a Get in progress eventually
\* returns, unless Close is called.
C3_GetReturns ==
    \A c \in Clients : InGet(c) ~> (pc[c] = "returned" \/ closed)

\* A first request and a late arrival for a key in flight have both returned,
\* Close not called.
C3_Witness ==
    /\ ~closed
    /\ \E c1, c2 \in Clients :
          /\ pc[c1] = "returned" /\ found[c1] = "new"
          /\ pc[c2] = "returned" /\ found[c2] = "pending"

\* C4: a deliver that has passed its wait or sent, and a Get that has
\* returned, find the entry's result stored by a finished call and ready
\* closed; what Get returned is that stored result, not the zero result.
C4_NoPartialResult ==
    /\ \A d \in deliverTasks :
          d.pc = "send" =>
              /\ entries[d.e].ready
              /\ \A t \in CallOf(d.e) : t.pc = "done" /\ entries[d.e].res = t.ret
    /\ \A c \in Clients :
          pc[c] = "returned" =>
              /\ KeyReady(key[c])
              /\ got[c] = entries[cache[key[c]]].res
              /\ got[c] # ZeroResult

\* A Get received while its key was being computed has returned.
C4_Witness ==
    \E c \in Clients :
        pc[c] = "returned" /\ found[c] = "pending" /\ got[c] # ZeroResult

\* C5: when f(k) has returned an error, f has been invoked once for k and
\* every Get(k) that returned, returned that error.
C5_ErrorCached ==
    \A k \in Keys : \A r \in produced[k] :
        r.err # "nil" =>
            /\ invoked[k] = 1
            /\ returned[k] \subseteq {r}
            /\ \A c \in Clients : pc[c] = "returned" /\ key[c] = k => got[c] = r

\* A Get of a key whose error was already cached has returned the error.
C5_Witness ==
    \E c \in Clients :
        /\ pc[c] = "returned" /\ found[c] = "ready"
        /\ got[c].err = "boom" /\ invoked[key[c]] = 1

\* C6: a Get of a key whose result is ready eventually returns (unless Close
\* is called), whatever the calls for other keys do.
C6_KeyIndependence ==
    \A c \in Clients :
        (InGet(c) /\ KeyReady(key[c])) ~> (pc[c] = "returned" \/ closed)

\* A Get of a ready key has returned while f of another key is running.
C6_Witness ==
    \E c \in Clients : \E k \in Keys :
        /\ pc[c] = "returned" /\ found[c] = "ready" /\ key[c] # k
        /\ KeyInFlight(k) /\ ~closed

\* C7: a Get begun after Close has returned does not panic, and when it
\* returns it returns a ClosedError.
C7_GetAfterCloseRejected ==
    \A c \in Clients :
        afterClose[c] =>
            /\ pc[c] # "panicked"
            /\ pc[c] = "returned" => got[c].err = "ClosedError"

\* C8: a Get begun before Close was called does not fail: only a Get begun
\* after Close can end otherwise than by returning its result.
C8_InFlightGetCompletes ==
    \A c \in Clients : pc[c] = "panicked" => afterClose[c]

\* C9: a second call of Close has no effect and does not fail.
C9_CloseIdempotent ==
    closeCalls >= 2 => closed /\ panic # "close of closed channel"

\* C10: once the server loop has terminated after Close and a request still
\* waiting to be sent has been rejected (its send panics, which ends the
\* program), no Get whose request the server received is left without its
\* result.
C10_NoRequestDropped ==
    (spc = "done" /\ panic = "send on closed channel") =>
        \A c \in Clients : pc[c] # "recv"


\* C20: an entry inserted in the cache is never replaced or removed, no
\* entry struct disappears, and the deliver started for a request of a key
\* that has an entry waits on that entry.
C20_EntryStable ==
    [][ /\ \A k \in Keys : cache[k] # NoEntry => cache'[k] = cache[k]
        /\ DOMAIN entries \subseteq DOMAIN entries'
        /\ \A c \in Clients :
              (pc[c] = "send" /\ pc'[c] = "recv") =>
                  \E t \in deliverTasks' \ deliverTasks :
                      /\ t.response = Response(c)
                      /\ t.e = cache'[key[c]]
                      /\ cache[key[c]] # NoEntry => t.e = cache[key[c]] ]_allVars

\* A request received for a key that already had an entry waits on it.
C20_Witness ==
    \E c \in Clients :
        /\ found[c] \in {"pending", "ready"}
        /\ \E t \in deliverTasks : t.response = Response(c) /\ t.e = cache[key[c]]

\* C21: an entry has one call task; its result is written only by that
\* task's store, once (from the zero value), in a step that leaves ready
\* open; once ready is closed the result never changes.
C21_WriteOnce ==
    [][ \A e \in DOMAIN entries :
           /\ Cardinality(CallOf(e)) = 1
           /\ entries[e].ready => entries'[e].res = entries[e].res
           /\ entries'[e].res # entries[e].res =>
                 /\ entries[e].res = ZeroResult
                 /\ ~entries[e].ready /\ ~entries'[e].ready
                 /\ \E t \in CallOf(e) :
                       t.pc = "store" /\ entries'[e].res = t.ret ]_allVars

C21_Witness ==
    \E e \in DOMAIN entries :
        /\ entries[e].ready
        /\ entries[e].res \in produced[e[1]]
        /\ \E c \in Clients : pc[c] = "returned" /\ got[c] = entries[e].res

\* C22: ready is closed only by the entry's call task, after f has returned
\* to it, when ready is still open; once closed it stays closed, and the
\* task is past its close.
C22_ReadyClosedOnce ==
    [][ \A e \in DOMAIN entries :
           /\ entries[e].ready => entries'[e].ready
           /\ \A t \in CallOf(e) : t.pc = "close" => ~entries[e].ready
           /\ \A t \in CallOf(e) : t.pc = "done" => entries[e].ready
           /\ (~entries[e].ready /\ entries'[e].ready) =>
                 \E t \in CallOf(e) :
                    /\ t.pc = "close"
                    /\ t.ret \in produced[t.key]
                    /\ [t EXCEPT !.pc = "done"] \in callTasks' ]_allVars

C22_Witness ==
    /\ Running
    /\ \A k \in Keys : \E t \in CallsFor(k) : t.pc = "done" /\ entries[t.e].ready

\* The deliver goroutines holding the response channel of c's current Get.
DeliversOn(c) == {t \in deliverTasks : t.response = Response(c)}

\* C23: a request the server has received has exactly one deliver goroutine,
\* holding that request's response channel and the entry of the requested
\* key; no deliver holds the channel of a Get that is not waiting; the reply
\* a Get receives is the result of its key's entry, and the deliver that sent
\* it is gone.
C23_OneReplyPerRequest ==
    [][ /\ \A c \in Clients :
              /\ pc[c] = "recv" =>
                    /\ Cardinality(DeliversOn(c)) = 1
                    /\ \A t \in DeliversOn(c) : t.e = cache[key[c]] /\ t.e[1] = key[c]
              /\ pc[c] # "recv" => DeliversOn(c) = {}
              /\ (pc[c] = "send" /\ pc'[c] = "recv") =>
                    Cardinality(deliverTasks') = Cardinality(deliverTasks) + 1
              /\ (pc[c] = "recv" /\ pc'[c] = "returned") =>
                    /\ got'[c] = entries[cache[key[c]]].res
                    /\ deliverTasks' = deliverTasks \ DeliversOn(c)
        /\ \A t \in deliverTasks : \E c \in Clients : t \in DeliversOn(c) ]_allVars

C23_Witness ==
    /\ \A c \in Clients : pc[c] = "returned" /\ ngets[c] >= 1
    /\ \E c, d \in Clients : key[c] # key[d]
    /\ deliverTasks = {}

\* C24: a step that changes the cache map is the server receiving a request,
\* and it changes the map at the requested key only; every other step
\* leaves the map as it is.
C24_CacheOwnedByServer ==
    [][ cache' # cache =>
           \E c \in Clients :
              /\ ServerReceiving
              /\ pc[c] = "send" /\ pc'[c] = "recv"
              /\ \A k \in Keys \ {key[c]} : cache'[k] = cache[k] ]_allVars

C24_Witness ==
    /\ \A k \in Keys : cache[k] # NoEntry /\ entries[cache[k]].ready
    /\ \E c \in Clients : pc[c] = "returned"
    /\ closed

\* C25: the keys of the cache are the keys of the requests received so far,
\* there is one entry per such key, and one call task per entry.
C25_EntryPerFirstRequest ==
    /\ {k \in Keys : cache[k] # NoEntry} = received
    /\ Cardinality(DOMAIN entries) = Cardinality(received)
    /\ Cardinality(callTasks) = Cardinality(DOMAIN entries)
    /\ \A e \in DOMAIN entries : cache[e[1]] = e

C25_Witness ==
    /\ received = Keys
    /\ Cardinality(callTasks) = Cardinality(Keys)
    /\ \E c \in Clients : found[c] \in {"pending", "ready"}

\* C26: while the requests channel is open the server can take a waiting
\* request whatever calls of f are unfinished, so calls for two keys overlap;
\* and whatever the order of the calls, a Get of k returns what f(k)
\* produced, a result of k.
C26_ConcurrentKeys ==
    /\ \A c \in Clients :
          (Running /\ ~closed /\ pc[c] = "send") => ENABLED ServerHandle(c)
    /\ \A k \in Keys : returned[k] \subseteq (produced[k] \cap FuncResults(k))
    /\ \A k \in Keys : KeyInFlight(k) => ~KeyReady(k)

\* f is running for both keys at once.
C26_Witness == \A k \in Keys : KeyInFlight(k)

\* C27: whether or not the deliver goroutines of StuckClient ever hand off
\* their replies, every Get of another client returns.
C27_StuckDeliverIsolated ==
    \A c \in OtherClients : InGet(c) ~> (pc[c] = "returned")

\* A reply to StuckClient is waiting to be handed off, and a later Get of the
\* same key by another client has returned.
C27_Witness ==
    \E t \in DeliversFor(StuckClient) : \E c \in OtherClients :
        /\ t.pc = "send"
        /\ pc[StuckClient] = "recv"
        /\ pc[c] = "returned" /\ key[c] = key[StuckClient] /\ found[c] = "ready"

\* C28: while m.requests is open the server is in its loop, at the receive;
\* once Close has closed the channel the loop ends, unless a panic (a send
\* on, or a second close of, the closed channel) ends the whole program
\* first.
C28_ServerLoop ==
    /\ [](~closed => spc = "loop")
    /\ closed ~> (spc = "done" \/ ~Running)

\* The loop has ended after Close, the program is running, and requests
\* were served before.
C28_Witness ==
    /\ spc = "done"
    /\ Running
    /\ \E c \in Clients : pc[c] = "returned"

\* ======================================================================
\* Package intset (src/5_functions/recover/soletitle.go, lines 46-193): a
\* bit vector.  A word is modelled by the set of its one bits, so that
\* &, |, &^ and ^ are intersection, union, difference and symmetric
\* difference, and s.words[i] is setS[i + 1].
\* ======================================================================

\* `const w = 32 << (^uint(0) >> 63)`: the word size on a 64-bit platform.
w == 64

MaxWords == 3   \* the elements used are below w * MaxWords

\* The elements handed to Add and Remove: the second bit of each word.
SetElems == {w * i + 1 : i \in 0..(MaxWords - 1)}

\* `x/w` and `uint(x%w)`.
WordOf(x) == x \div w
BitOf(x) == x % w

\* IntSet.Has (lines 93-96).
Has(words, x) == WordOf(x) < Len(words) /\ BitOf(x) \in words[WordOf(x) + 1]

\* IntSet.Len (lines 66-72).
RECURSIVE SetLen(_)
SetLen(words) ==
    IF words = << >> THEN 0
    ELSE Cardinality(Head(words)) + SetLen(Tail(words))

\* IntSet.Add (lines 101-107): grow the words, then set the bit.
RECURSIVE Grow(_, _)
Grow(words, word) ==
    IF word >= Len(words) THEN Grow(Append(words, {}), word) ELSE words
Add(words, x) ==
    [Grow(words, WordOf(x)) EXCEPT ![WordOf(x) + 1] = @ \cup {BitOf(x)}]

\* IntSet.Remove (lines 75-78): s.words[word] is indexed without a check.
Remove(words, x) ==
    IF WordOf(x) >= Len(words)
      THEN [words |-> words, panic |-> TRUE]
      ELSE [words |-> [words EXCEPT ![WordOf(x) + 1] = @ \ {BitOf(x)}],
            panic |-> FALSE]

\* IntSet.UnionWith (lines 117-125).
RECURSIVE UnionLoop(_, _, _)
UnionLoop(sw, tw, i) ==
    IF i >= Len(tw) THEN sw
    ELSE IF i < Len(sw)
      THEN UnionLoop([sw EXCEPT ![i + 1] = @ \cup tw[i + 1]], tw, i + 1)
      ELSE UnionLoop(Append(sw, tw[i + 1]), tw, i + 1)
UnionWith(sw, tw) == UnionLoop(sw, tw, 0)

\* The assignment in the loop body of each of the three methods below.
WordOp(name, sword, tword) ==
    CASE name = "IntersectWith" -> sword \cap tword
      [] name = "DifferenceWith" -> sword \ tword
      [] name = "SymmetricDifference" -> (sword \ tword) \cup (tword \ sword)

\* The loop shared by IntersectWith, DifferenceWith and SymmetricDifference
\* (lines 129-134, 140-145, 150-155): `if i > len(s.words) { break }`, then
\* s.words[i] is indexed, which panics when i = len(s.words).
RECURSIVE WordsLoop(_, _, _, _)
WordsLoop(name, sw, tw, i) ==
    IF i >= Len(tw) THEN [words |-> sw, panic |-> FALSE]
    ELSE IF i > Len(sw) THEN [words |-> sw, panic |-> FALSE]
    ELSE IF i = Len(sw) THEN [words |-> sw, panic |-> TRUE]
    ELSE WordsLoop(name, [sw EXCEPT ![i + 1] = WordOp(name, @, tw[i + 1])], tw, i + 1)

\* IntSet.IntersectWith (lines 128-135).
IntersectWith(sw, tw) == WordsLoop("IntersectWith", sw, tw, 0)
\* IntSet.DifferenceWith (lines 139-146).
DifferenceWith(sw, tw) == WordsLoop("DifferenceWith", sw, tw, 0)
\* IntSet.SymmetricDifference (lines 149-156).
SymmetricDifference(sw, tw) == WordsLoop("SymmetricDifference", sw, tw, 0)

\* IntSet.Copy (lines 86-90): t := &IntSet{} has no words, and copy copies
\* min(len(t.words), len(s.words)) = 0 words.
CopyElements(dst, src) ==
    [i \in 1..Len(dst) |-> IF i <= Len(src) THEN src[i] ELSE dst[i]]
Copy(words) == CopyElements(<< >>, words)

\* ----- a program that uses two sets, s and t; a panic ends it

\* An operation has left s.words = sw and t.words = tw, or has panicked.
SetDone(name, x, sw, tw, pan) ==
    /\ setPre' = <<setS, setT>>
    /\ setOp' = [name |-> name, x |-> x]
    /\ setS' = sw
    /\ setT' = tw
    /\ setPanic' = pan
    /\ UNCHANGED notSet

\* s.Add(x)
SAdd(x) ==
    /\ ~setPanic
    /\ SetDone("s.Add", x, Add(setS, x), setT, FALSE)

\* t.Add(x)
TAdd(x) ==
    /\ ~setPanic
    /\ SetDone("t.Add", x, setS, Add(setT, x), FALSE)

\* s.Remove(x)
SRemove(x) ==
    /\ ~setPanic
    /\ SetDone("s.Remove", x, Remove(setS, x).words, setT, Remove(setS, x).panic)

\* t.Remove(x)
TRemove(x) ==
    /\ ~setPanic
    /\ SetDone("t.Remove", x, setS, Remove(setT, x).words, Remove(setT, x).panic)

\* s.UnionWith(t)
SUnionWith ==
    /\ ~setPanic
    /\ SetDone("UnionWith", 0, UnionWith(setS, setT), setT, FALSE)

\* s.IntersectWith(t)
SIntersectWith ==
    /\ ~setPanic
    /\ SetDone("IntersectWith", 0, IntersectWith(setS, setT).words, setT,
               IntersectWith(setS, setT).panic)

\* s.DifferenceWith(t)
SDifferenceWith ==
    /\ ~setPanic
    /\ SetDone("DifferenceWith", 0, DifferenceWith(setS, setT).words, setT,
               DifferenceWith(setS, setT).panic)

\* s.SymmetricDifference(t)
SSymmetricDifference ==
    /\ ~setPanic
    /\ SetDone("SymmetricDifference", 0, SymmetricDifference(setS, setT).words,
               setT, SymmetricDifference(setS, setT).panic)

\* t = s.Copy()
SCopy ==
    /\ ~setPanic
    /\ SetDone("Copy", 0, setS, Copy(setS), FALSE)

SetNext ==
    \/ \E x \in SetElems : SAdd(x)
    \/ \E x \in SetElems : TAdd(x)
    \/ \E x \in SetElems : SRemove(x)
    \/ \E x \in SetElems : TRemove(x)
    \/ SUnionWith
    \/ SIntersectWith
    \/ SDifferenceWith
    \/ SSymmetricDifference
    \/ SCopy

SetSpec == AllInit /\ [][SetNext]_allVars

\* Every non-negative x that can be in a set of the model.
SetRange == 0..(w * (MaxWords + 1) - 1)
PreS == setPre[1]
PreT == setPre[2]

\* C14: after s.IntersectWith(t) the call has not failed and s has x iff s
\* had x before and t has x.
C14_IntersectWith ==
    setOp.name = "IntersectWith" =>
        /\ ~setPanic
        /\ \A x \in SetRange : Has(setS, x) <=> (Has(PreS, x) /\ Has(setT, x))

\* C15: after s.DifferenceWith(t) the call has not failed and s has x iff s
\* had x before and t does not have x.
C15_DifferenceWith ==
    setOp.name = "DifferenceWith" =>
        /\ ~setPanic
        /\ \A x \in SetRange : Has(setS, x) <=> (Has(PreS, x) /\ ~Has(setT, x))

\* C16: after s.SymmetricDifference(t), s has x iff exactly one of s before
\* the call and t has x.
C16_SymmetricDifference ==
    setOp.name = "SymmetricDifference" =>
        /\ ~setPanic
        /\ \A x \in SetRange : Has(setS, x) <=> (Has(PreS, x) # Has(setT, x))

\* C17: after t = s.Copy(), t has exactly the elements of s and the same Len.
C17_Copy ==
    setOp.name = "Copy" =>
        /\ \A x \in SetRange : Has(setT, x) <=> Has(setS, x)
        /\ SetLen(setT) = SetLen(setS)

\* ======================================================================
\* Package eval (src/7_interfaces/eval/ast.go, check.go): expressions and
\* their static check.  Parse is not part of the sources at hand, so the
\* test's inputs are the syntax trees it would build.
\* ======================================================================

Var(name) == [type |-> "Var", name |-> name]
Literal(v) == [type |-> "literal", value |-> v]
Unary(op, x) == [type |-> "unary", op |-> op, x |-> x]
Binary(op, x, y) == [type |-> "binary", op |-> op, x |-> x, y |-> y]

\* The operators the types document: unary '+', '-'; binary [+-*/].
UnaryOps == {"+", "-"}
BinaryOps == {"+", "-", "*", "/"}

\* The trees checked: leaves, one operator over leaves, and one binary
\* operator over those; '%' stands for an operator outside [+-*/].
Leaves == {Var("F"), Literal("5"), Literal("9"), Literal("32")}
Exprs1 ==
    Leaves \cup {Unary(op, x) : op \in UnaryOps, x \in Leaves}
           \cup {Binary(op, x, y) : op \in BinaryOps \cup {"%"}, x \in Leaves, y \in Leaves}
Exprs2 ==
    Exprs1 \cup {Binary(op, x, y) : op \in BinaryOps \cup {"%"}, x \in Exprs1, y \in Exprs1}

\* 5 / 9 * (F - 32)
FtoC ==
    Binary("*", Binary("/", Literal("5"), Literal("9")),
                Binary("-", Var("F"), Literal("32")))

\* strings.ContainsRune("+-", op)
ContainsRunePlusMinus(op) == op \in {"+", "-"}

\* e.Check(vars): the error returned and the Vars marked in vars.
RECURSIVE Check(_)
Check(e) ==
    CASE e.type = "Var" -> [err |-> NoError, vars |-> {e.name}]
      [] e.type = "literal" -> [err |-> NoError, vars |-> {}]
      [] e.type = "unary" ->
            IF ~ContainsRunePlusMinus(e.op)
            THEN [err |-> "unexpected unary op " \o e.op, vars |-> {}]
            ELSE Check(e.x)
      [] e.type = "binary" ->
            IF ~ContainsRunePlusMinus(e.op)
            THEN [err |-> "unexpected binary op " \o e.op, vars |-> {}]
            ELSE IF Check(e.x).err # NoError
                 THEN Check(e.x)
                 ELSE Check(e.x)

\* The test's step for one table entry: expr.Check(map[Var]bool{}), on a
\* fresh map.  A behaviour follows one entry.
TestCheck(e) ==
    /\ evExpr = NoExpr
    /\ evExpr' = e
    /\ evErr' = Check(e).err
    /\ evVars' = Check(e).vars
    /\ UNCHANGED notEval

EvalNext ==
    /\ evExpr = NoExpr
    /\ \E e \in Exprs2 : TestCheck(e)

EvalSpec == AllInit /\ [][EvalNext]_allVars

\* Every operator of the tree is one its type documents.
RECURSIVE WellFormed(_)
WellFormed(e) ==
    CASE e.type \in {"Var", "literal"} -> TRUE
      [] e.type = "unary" -> e.op \in UnaryOps /\ WellFormed(e.x)
      [] e.type = "binary" -> e.op \in BinaryOps /\ WellFormed(e.x) /\ WellFormed(e.y)

\* C18: Check returns no error for an expression whose operators are all
\* among the documented ones, 5 / 9 * (F - 32) included.
C18_CheckAccepts ==
    (evExpr # NoExpr /\ WellFormed(evExpr)) => evErr = NoError

\* ======================================================================
\* Package storage (src/unnamed/part_004): CheckQuota, with notifyUser
\* replaced by the recording fake of the test (src/unnamed/part_005).
\* ======================================================================

\* const quota = 1e9
quota == 1000000000

\* The base of the two-part byte counts: 100 * Limb = quota.
Limb == quota \div 100

\* The byte counts the test stores in usage, from 0 to 2.5 quota.
UsedValues == {<<hi, lo>> : hi \in {0, 45, 89, 90, 98, 100, 250}, lo \in {0, 1, Limb - 1}}

\* bytesInUse(username)
bytesInUse(username) == usage[username]

\* 100 * used, as <<hi, lo>> with value hi * quota + lo.
Times100(used) == <<used[1], 100 * used[2]>>

\* p / quota for p = <<hi, lo>> of value hi * quota + lo: integer division.
DivQuota(p) == p[1] + (p[2] \div quota)

DigitChar == <<"0", "1", "2", "3", "4", "5", "6", "7", "8", "9">>

\* %d of a non-negative int: its decimal digits.
RECURSIVE FormatInt(_)
FormatInt(n) ==
    IF n < 10 THEN DigitChar[n + 1]
    ELSE FormatInt(n \div 10) \o DigitChar[(n % 10) + 1]

\* The decimal digits of n in exactly `width` places.
RECURSIVE FormatPadded(_, _)
FormatPadded(n, width) ==
    IF width = 0 THEN ""
    ELSE FormatPadded(n \div 10, width - 1) \o DigitChar[(n % 10) + 1]

\* The number of decimal places of Limb - 1.
RECURSIVE Places(_)
Places(n) == IF n < 10 THEN 1 ELSE 1 + Places(n \div 10)

\* %d of a byte count.
FormatBytes(b) ==
    IF b[1] = 0 THEN FormatInt(b[2])
    ELSE FormatInt(b[1]) \o FormatPadded(b[2], Places(Limb - 1))

\* fmt.Sprintf(template, used, percent)
template(used, percent) ==
    "Warning: you are using " \o FormatBytes(used) \o " bytes of storage,\n"
        \o FormatInt(percent) \o "% of your quota."

\* `if percent < 90 { return }`, with the <= that would skip 90 as well.
BelowThresholdStrict(percent) == percent <= 90
BelowThreshold(percent) == percent < 90

\* The fake notifyUser records its arguments.
notifyUser(calls, username, msg) == Append(calls, [username |-> username, msg |-> msg])

\* The test stores a byte count for a user before its call of CheckQuota.
SetUsage(username, used) ==
    /\ checked = ""
    /\ usage' = [usage EXCEPT ![username] = used]
    /\ UNCHANGED <<checked, notified>>
    /\ UNCHANGED notQuota

\* CheckQuota(username); notified holds the calls this CheckQuota made.
CheckQuota(username) ==
    LET used == bytesInUse(username)
        percent == DivQuota(Times100(used))
    IN  /\ checked' = username
        /\ notified' = IF BelowThreshold(percent)
                       THEN << >>
                       ELSE notifyUser(<< >>, username, template(used, percent))
        /\ UNCHANGED usage
        /\ UNCHANGED notQuota

QuotaNext ==
    \/ \E u \in Usernames, b \in UsedValues : SetUsage(u, b)
    \/ \E u \in Usernames : CheckQuota(u)

QuotaSpec == AllInit /\ [][QuotaNext]_allVars

\* C19: after CheckQuota(u), with p the integer percentage 100*used/1e9
\* (the whole quota-hundredths in used): if p >= 90 notifyUser was called
\* exactly once, with u and the message stating used and p; if p < 90 it was
\* not called; 980000000 bytes give "98% of your quota".
C19_QuotaNotification ==
    checked # "" =>
        LET used == usage[checked]
            p == used[1]
        IN  /\ p >= 90 =>
                /\ Len(notified) = 1
                /\ notified[1].username = checked
                /\ notified[1].msg = template(used, p)
            /\ p < 90 => notified = << >>
            /\ used = <<98, 0>> =>
                /\ Len(notified) = 1
                /\ notified[1].msg =
                     "Warning: you are using 980000000 bytes of storage,\n98% of your quota."

C19_Witness ==
    /\ checked # ""
    /\ usage[checked] = <<98, 0>>
    /\ Len(notified) = 1

\* ======================================================================
\* Chat server (src/8_channels/chat/chat.go).  entering, leaving, messages
\* and every ch are unbuffered: a send and its receive are one joint step.
\* ======================================================================

\* handleConn is past `entering <- ch` and not past `leaving <- ch`.
EnteredNotLeft == {c \in Conns : hpc[c] = "scan"}

\* clients[cli] = true
ClientsAfterEntering(cs, c) == cs \cup {c}

\* delete(clients, cli), and a leaving case that forgets the delete.
ClientsAfterLeavingKept(cs, c) == cs
ClientsAfterLeaving(cs, c) == cs \ {c}

\* main: Accept returns conn; go handleConn(conn), which makes ch and
\* starts ClientWriter.
Accept(c) ==
    /\ hpc[c] = "idle"
    /\ hpc' = [hpc EXCEPT ![c] = "greet"]
    /\ wpc' = [wpc EXCEPT ![c] = "recv"]
    /\ UNCHANGED <<clients, bpc, bmsg, btodo, nlines, chClosed, sentTo, atReceipt>>
    /\ UNCHANGED notChat

\* handleConn: ch <- "You are " + who, received by ClientWriter.
Greet(c) ==
    /\ hpc[c] = "greet"
    /\ wpc[c] = "recv"
    /\ hpc' = [hpc EXCEPT ![c] = "arrive"]
    /\ wpc' = [wpc EXCEPT ![c] = "print"]
    /\ UNCHANGED <<clients, bpc, bmsg, btodo, nlines, chClosed, sentTo, atReceipt>>
    /\ UNCHANGED notChat

\* broadcaster: case msg := <-messages, entering the range loop.
ReceiveMessage(msg) ==
    /\ bpc = "select"
    /\ bpc' = "range"
    /\ bmsg' = msg
    /\ btodo' = clients
    /\ sentTo' = [c \in Conns |-> << >>]
    /\ atReceipt' = EnteredNotLeft
    /\ UNCHANGED <<clients, wpc, chClosed>>
    /\ UNCHANGED notChat

\* handleConn: messages <- who + "has arrived"
Arrived(c) ==
    /\ hpc[c] = "arrive"
    /\ hpc' = [hpc EXCEPT ![c] = "enter"]
    /\ UNCHANGED nlines
    /\ ReceiveMessage(<<c, "has arrived">>)

\* handleConn: entering <- ch; broadcaster: case cli := <-entering.
Enter(c) ==
    /\ hpc[c] = "enter"
    /\ bpc = "select"
    /\ hpc' = [hpc EXCEPT ![c] = "scan"]
    /\ clients' = ClientsAfterEntering(clients, c)
    /\ UNCHANGED <<bpc, bmsg, btodo, nlines, wpc, chClosed, sentTo, atReceipt>>
    /\ UNCHANGED notChat

\* handleConn: input.Scan() returned a line; messages <- who + ": " + text.
Line(c) ==
    /\ hpc[c] = "scan"
    /\ nlines[c] < MaxLines
    /\ nlines' = [nlines EXCEPT ![c] = @ + 1]
    /\ UNCHANGED hpc
    /\ ReceiveMessage(<<c, "line">>)

\* handleConn: input.Scan() returned false; leaving <- ch; broadcaster:
\* case cli := <-leaving, delete and close(cli).
Leave(c) ==
    /\ hpc[c] = "scan"
    /\ bpc = "select"
    /\ hpc' = [hpc EXCEPT ![c] = "bye"]
    /\ clients' = ClientsAfterLeaving(clients, c)
    /\ chClosed' = [chClosed EXCEPT ![c] = TRUE]
    /\ UNCHANGED <<bpc, bmsg, btodo, nlines, wpc, sentTo, atReceipt>>
    /\ UNCHANGED notChat

\* handleConn: messages <- who + " has left"; conn.Close(); return.
HasLeft(c) ==
    /\ hpc[c] = "bye"
    /\ hpc' = [hpc EXCEPT ![c] = "done"]
    /\ UNCHANGED nlines
    /\ ReceiveMessage(<<c, "has left">>)

\* broadcaster: cli <- msg for the next cli of the range, received by that
\* client's ClientWriter.  The range visits the map in any order.
BroadcastSend(c) ==
    /\ bpc = "range"
    /\ c \in btodo
    /\ ~chClosed[c]
    /\ wpc[c] = "recv"
    /\ btodo' = btodo \ {c}
    /\ wpc' = [wpc EXCEPT ![c] = "print"]
    /\ sentTo' = [sentTo EXCEPT ![c] = Append(@, bmsg)]
    /\ UNCHANGED <<clients, bpc, bmsg, hpc, nlines, chClosed, atReceipt>>
    /\ UNCHANGED notChat

\* broadcaster: the range is over; back to the select.
BroadcastDone ==
    /\ bpc = "range"
    /\ btodo = {}
    /\ bpc' = "select"
    /\ UNCHANGED <<clients, bmsg, btodo, hpc, nlines, wpc, chClosed, sentTo, atReceipt>>
    /\ UNCHANGED notChat

\* ClientWriter: fmt.Fprintln(conn, msg), then back to the range receive.
WriterPrint(c) ==
    /\ wpc[c] = "print"
    /\ wpc' = [wpc EXCEPT ![c] = "recv"]
    /\ UNCHANGED <<clients, bpc, bmsg, btodo, hpc, nlines, chClosed, sentTo, atReceipt>>
    /\ UNCHANGED notChat

\* ClientWriter: ch is closed, the range loop ends.
WriterExit(c) ==
    /\ wpc[c] = "recv"
    /\ chClosed[c]
    /\ wpc' = [wpc EXCEPT ![c] = "done"]
    /\ UNCHANGED <<clients, bpc, bmsg, btodo, hpc, nlines, chClosed, sentTo, atReceipt>>
    /\ UNCHANGED notChat

ChatNext ==
    \/ \E c \in Conns : Accept(c)
    \/ \E c \in Conns : Greet(c)
    \/ \E c \in Conns : Arrived(c)
    \/ \E c \in Conns : Enter(c)
    \/ \E c \in Conns : Line(c)
    \/ \E c \in Conns : Leave(c)
    \/ \E c \in Conns : HasLeft(c)
    \/ \E c \in Conns : BroadcastSend(c)
    \/ BroadcastDone
    \/ \E c \in Conns : WriterPrint(c)
    \/ \E c \in Conns : WriterExit(c)

ChatSpec == AllInit /\ [][ChatNext]_allVars

\* C11: of the message the broadcaster last received, each client that had
\* entered and not left at the receipt has been sent it once or is still to
\* be visited, nobody else has been sent anything, and when the broadcast is
\* over each of those clients has been sent it exactly once.
C11_Broadcast ==
    /\ \A c \in Conns :
          sentTo[c] = IF c \in atReceipt \ btodo THEN <<bmsg>> ELSE << >>
    /\ btodo \subseteq atReceipt
    /\ bpc = "select" => btodo = {}

C11_Witness ==
    /\ bpc = "select"
    /\ bmsg # NoMsg
    /\ Cardinality(atReceipt) = NumConns
    /\ \A c \in atReceipt : sentTo[c] = <<bmsg>>

\* ======================================================================
\* du (src/8_channels/du/du.go, lines 16-68 and 119-198).  fileSizes is
\* unbuffered: a walker's send and main's receive are one joint step.
\* ======================================================================

\* var sema = make(chan struct{}, 20): its capacity.
semaCap == 20

Started(kind) == <<kind, "start", 0>>
Reading(kind) == <<kind, "reading", 0>>
AtEntry(kind, i) == <<kind, "range", i>>

\* One goroutine moves from one state to another; one starts; one ends.
Move(ws, from, to) == [ws EXCEPT ![from] = @ - 1, ![to] = @ + 1]
Start(ws, st) == [ws EXCEPT ![st] = @ + 1]
End(ws, st) == [ws EXCEPT ![st] = @ - 1]

\* main1 and main: roots := flag.Args(); no argument means the one root ".".
\* p is the function that runs as du's main.
ParseRoots(p, given) ==
    /\ dpc = "args"
    /\ prog' = p
    /\ dpc' = IF p = "main1" THEN "go" ELSE "spawn"
    /\ args' = IF given = NoRoots THEN [NoRoots EXCEPT !["nested"] = 1] ELSE given
    /\ roots' = args'
    /\ UNCHANGED <<walkers, stack, wg, cpc, fsClosed, nfiles, nbytes>>
    /\ UNCHANGED notDu

\* ------------------------------------------------------------ main1

\* main1: go func() { for _, root := range roots {...}; close(fileSizes) }(),
\* then main1 is at its range over fileSizes.
StartWalker ==
    /\ dpc = "go"
    /\ dpc' = "range"
    /\ cpc' = "walk"
    /\ UNCHANGED <<prog, args, roots, walkers, stack, wg, fsClosed, nfiles, nbytes>>
    /\ UNCHANGED notDu

Top == stack[Len(stack)]
SetTop(st) == [stack EXCEPT ![Len(stack)] = st]

\* background goroutine: walkDir(root, fileSizes) for the next root.
WalkRoot(kind) ==
    /\ cpc = "walk"
    /\ stack = << >>
    /\ roots[kind] > 0
    /\ roots' = [roots EXCEPT ![kind] = @ - 1]
    /\ stack' = <<Started(kind)>>
    /\ UNCHANGED <<prog, dpc, args, walkers, wg, cpc, fsClosed, nfiles, nbytes>>
    /\ UNCHANGED notDu

\* walkDir: dirents(dir) returns the entries; the range loop starts.
WalkDirents ==
    /\ stack # << >>
    /\ Top[2] = "start"
    /\ stack' = SetTop(AtEntry(Top[1], 1))
    /\ UNCHANGED <<prog, dpc, args, roots, walkers, wg, cpc, fsClosed, nfiles, nbytes>>
    /\ UNCHANGED notDu

\* walkDir, entry.IsDir(): the recursive call walkDir(subdir, fileSizes).
WalkSubdir ==
    /\ stack # << >>
    /\ Top[2] = "range"
    /\ Top[3] \in 1..Len(DirEntries(Top[1]))
    /\ DirEntries(Top[1])[Top[3]] = "dir"
    /\ stack' = Append(stack, Started("sub"))
    /\ UNCHANGED <<prog, dpc, args, roots, walkers, wg, cpc, fsClosed, nfiles, nbytes>>
    /\ UNCHANGED notDu

\* walkDir: fileSizes <- entry.Size(), received by main1's range:
\* nfiles++; nbytes += size.
WalkSendSize ==
    /\ stack # << >>
    /\ Top[2] = "range"
    /\ Top[3] \in 1..Len(DirEntries(Top[1]))
    /\ DirEntries(Top[1])[Top[3]] = "file"
    /\ dpc = "range"
    /\ ~fsClosed
    /\ stack' = SetTop(AtEntry(Top[1], Top[3] + 1))
    /\ nfiles' = nfiles + 1
    /\ nbytes' = nbytes + FileSize(Top[1])
    /\ UNCHANGED <<prog, dpc, args, roots, walkers, wg, cpc, fsClosed>>
    /\ UNCHANGED notDu

\* walkDir returns: to the caller's range loop, which goes on to its next
\* entry, or to the background goroutine's loop over roots.
WalkDirReturn ==
    /\ stack # << >>
    /\ Top[2] = "range"
    /\ Top[3] = Len(DirEntries(Top[1])) + 1
    /\ LET rest == SubSeq(stack, 1, Len(stack) - 1)
           caller == rest[Len(rest)]
       IN  stack' = IF rest = << >>
                    THEN rest
                    ELSE [rest EXCEPT ![Len(rest)] = AtEntry(caller[1], caller[3] + 1)]
    /\ UNCHANGED <<prog, dpc, args, roots, walkers, wg, cpc, fsClosed, nfiles, nbytes>>
    /\ UNCHANGED notDu

\* The variant closes fileSizes between two roots.
CloseAfterWalkEarly ==
    /\ cpc = "walk"
    /\ stack = << >>
    /\ cpc' = "done"
    /\ fsClosed' = TRUE
    /\ UNCHANGED <<prog, dpc, args, roots, walkers, stack, wg, nfiles, nbytes>>
    /\ UNCHANGED notDu

\* background goroutine: the loop over roots is over; close(fileSizes).
CloseAfterWalk ==
    /\ cpc = "walk"
    /\ stack = << >>
    /\ roots = NoRoots
    /\ cpc' = "done"
    /\ fsClosed' = TRUE
    /\ UNCHANGED <<prog, dpc, args, roots, walkers, stack, wg, nfiles, nbytes>>
    /\ UNCHANGED notDu

\* main1: the range over fileSizes ends when the channel is closed.
RangeEnd ==
    /\ dpc = "range"
    /\ fsClosed
    /\ dpc' = "done"
    /\ UNCHANGED <<prog, args, roots, walkers, stack, wg, cpc, fsClosed, nfiles, nbytes>>
    /\ UNCHANGED notDu

\* ------------------------------------------------------------ main

\* main: n.Add(1); go parallelWalkDir(root, &n, fileSizes) for the next root.
SpawnRoot(kind) ==
    /\ dpc = "spawn"
    /\ roots[kind] > 0
    /\ roots' = [roots EXCEPT ![kind] = @ - 1]
    /\ walkers' = Start(walkers, Started(kind))
    /\ wg' = wg + 1
    /\ UNCHANGED <<prog, dpc, args, stack, cpc, fsClosed, nfiles, nbytes>>
    /\ UNCHANGED notDu

\* main: go func() { n.Wait(); close(fileSizes) }(), then the select loop.
StartCloser ==
    /\ dpc = "spawn"
    /\ roots = NoRoots
    /\ dpc' = "loop"
    /\ cpc' = "wait"
    /\ UNCHANGED <<prog, args, roots, walkers, stack, wg, fsClosed, nfiles, nbytes>>
    /\ UNCHANGED notDu

\* parallelWalkDir: dirents(dir) calls ioutil.ReadDir(dir).  dirents takes
\* no token of sema.
ReadDirBegin(kind) ==
    /\ walkers[Started(kind)] > 0
    /\ walkers' = Move(walkers, Started(kind), Reading(kind))
    /\ UNCHANGED <<prog, dpc, args, roots, stack, wg, cpc, fsClosed, nfiles, nbytes>>
    /\ UNCHANGED notDu

\* ioutil.ReadDir returns the entries; the range loop starts.
ReadDirEnd(kind) ==
    /\ walkers[Reading(kind)] > 0
    /\ walkers' = Move(walkers, Reading(kind), AtEntry(kind, 1))
    /\ UNCHANGED <<prog, dpc, args, roots, stack, wg, cpc, fsClosed, nfiles, nbytes>>
    /\ UNCHANGED notDu

\* n.Add(1) before `go parallelWalkDir(subdir, ...)`; the variant starts the
\* goroutine without counting it.
CounterAfterAddNone(n) == n
CounterAfterAdd(n) == n + 1

\* parallelWalkDir, entry.IsDir(): n.Add(1); go parallelWalkDir(subdir, ...).
SpawnSubdir(kind, i) ==
    /\ i \in 1..Len(DirEntries(kind))
    /\ DirEntries(kind)[i] = "dir"
    /\ walkers[AtEntry(kind, i)] > 0
    /\ wg' = CounterAfterAdd(wg)
    /\ walkers' = Start(Move(walkers, AtEntry(kind, i), AtEntry(kind, i + 1)),
                        Started("sub"))
    /\ UNCHANGED <<prog, dpc, args, roots, stack, cpc, fsClosed, nfiles, nbytes>>
    /\ UNCHANGED notDu

\* parallelWalkDir: fileSizes <- entry.Size(), received by main's select:
\* nfiles++; nbytes += size.
SendSize(kind, i) ==
    /\ i \in 1..Len(DirEntries(kind))
    /\ DirEntries(kind)[i] = "file"
    /\ walkers[AtEntry(kind, i)] > 0
    /\ dpc = "loop"
    /\ ~fsClosed
    /\ walkers' = Move(walkers, AtEntry(kind, i), AtEntry(kind, i + 1))
    /\ nfiles' = nfiles + 1
    /\ nbytes' = nbytes + FileSize(kind)
    /\ UNCHANGED <<prog, dpc, args, roots, stack, wg, cpc, fsClosed>>
    /\ UNCHANGED notDu

\* parallelWalkDir returns: the deferred n.Done().
WalkReturn(kind) ==
    /\ walkers[AtEntry(kind, Len(DirEntries(kind)) + 1)] > 0
    /\ walkers' = End(walkers, AtEntry(kind, Len(DirEntries(kind)) + 1))
    /\ wg' = wg - 1
    /\ UNCHANGED <<prog, dpc, args, roots, stack, cpc, fsClosed, nfiles, nbytes>>
    /\ UNCHANGED notDu

\* closer: n.Wait() returns once the counter is zero.
WaitReturns ==
    /\ cpc = "wait"
    /\ wg = 0
    /\ cpc' = "close"
    /\ UNCHANGED <<prog, dpc, args, roots, walkers, stack, wg, fsClosed, nfiles, nbytes>>
    /\ UNCHANGED notDu

\* closer: close(fileSizes)
CloseFileSizes ==
    /\ cpc = "close"
    /\ cpc' = "done"
    /\ fsClosed' = TRUE
    /\ UNCHANGED <<prog, dpc, args, roots, walkers, stack, wg, nfiles, nbytes>>
    /\ UNCHANGED notDu

\* main: case size, ok := <-fileSizes with !ok: break loop, final totals.
ReceiveClosed ==
    /\ dpc = "loop"
    /\ fsClosed
    /\ dpc' = "done"
    /\ UNCHANGED <<prog, args, roots, walkers, stack, wg, cpc, fsClosed, nfiles, nbytes>>
    /\ UNCHANGED notDu

\* The command lines: up to NumRoots flat roots, with or without a nested
\* and an empty one.
CommandLines ==
    {[flat |-> f, nested |-> n, empty |-> e] :
        f \in {0, 1, NumRoots}, n \in {0, 1}, e \in {0, 1}}

\* Every step of main1 and main after the command line is parsed.
DuRun ==
    \/ StartWalker
    \/ \E k \in RootKinds : WalkRoot(k)
    \/ WalkDirents
    \/ WalkSubdir
    \/ WalkSendSize
    \/ WalkDirReturn
    \/ CloseAfterWalk
    \/ RangeEnd
    \/ \E k \in RootKinds : SpawnRoot(k)
    \/ StartCloser
    \/ \E k \in DirKinds : ReadDirBegin(k)
    \/ \E k \in DirKinds : ReadDirEnd(k)
    \/ \E k \in DirKinds, i \in 1..2 : SpawnSubdir(k, i)
    \/ \E k \in DirKinds, i \in 1..2 : SendSize(k, i)
    \/ \E k \in DirKinds : WalkReturn(k)
    \/ WaitReturns
    \/ CloseFileSizes
    \/ ReceiveClosed

DuNext ==
    \/ \E p \in Programs, given \in CommandLines : ParseRoots(p, given)
    \/ DuRun

DuSpec == AllInit /\ [][DuNext]_allVars

\* Command lines of up to MaxArgs flat and MaxArgs nested roots, with or
\* without an empty one.
SmallCommandLines ==
    {[flat |-> f, nested |-> n, empty |-> e] :
        f \in 0..MaxArgs, n \in 0..MaxArgs, e \in {0, 1}}

DuSmallNext ==
    \/ \E p \in Programs, given \in SmallCommandLines : ParseRoots(p, given)
    \/ DuRun

\* Some goroutine that can run does run.
DuFairSpec == AllInit /\ [][DuSmallNext]_allVars /\ WF_allVars(DuSmallNext)

\* The ioutil.ReadDir calls in progress.
ReadsInProgress ==
    walkers[Reading("flat")] + walkers[Reading("nested")] + walkers[Reading("sub")]

\* C12: at most 20 ioutil.ReadDir calls are in progress at any time.
C12_AtMost20Reads == ReadsInProgress <= semaCap

\* The parallelWalkDir calls that have started and not returned.
RunningWalks == Sum(walkers, WalkerStates)

\* C29 as stated: in main the counter of n drops to zero only when no walk
\* is pending, neither a running parallelWalkDir call nor a root whose
\* walk main has yet to start.
C29_ZeroOnlyAfterEveryWalk ==
    [][(dpc \in {"spawn", "loop"} /\ wg > 0 /\ wg' = 0)
          => (roots' = NoRoots /\ RunningWalks' = 0)]_allVars

\* C29, amended: the counter of n is the number of parallelWalkDir calls
\* started and not returned; once the closer has been started, which is
\* after a walk was started for every root, the counter is zero only when
\* every call has returned; fileSizes is closed in one step of the closer,
\* after n.Wait() returned with every call returned, it stays closed and
\* the closer does not close it again; no walk is left to send on it.
C29_ClosedOnceAfterAllWalks ==
    /\ [](wg = RunningWalks)
    /\ [](cpc \in {"wait", "close"} => roots = NoRoots)
    /\ []((cpc \in {"wait", "close"} /\ wg = 0) => RunningWalks = 0)
    /\ [](cpc = "close" => (~fsClosed /\ wg = 0))
    /\ [](fsClosed => (RunningWalks = 0 /\ cpc = "done"))
    /\ [][fsClosed => fsClosed']_allVars
    /\ [][(dpc = "loop" /\ fsClosed' # fsClosed)
             => (cpc = "close" /\ cpc' = "done" /\ wg = 0 /\ walkers' = walkers)]_allVars

\* n.Wait() has returned in a run with a recursive walk and an empty root.
C29_Witness ==
    /\ cpc = "close"
    /\ args["nested"] = 1
    /\ args["empty"] = 1
    /\ nfiles >= 2

\* The files under a directory of a shape, from its entry i on, and the sum
\* of their sizes: a subdirectory counts for the files under it.
RECURSIVE TreeFiles(_, _)
TreeFiles(kind, i) ==
    IF i > Len(DirEntries(kind)) THEN 0
    ELSE (IF DirEntries(kind)[i] = "dir" THEN TreeFiles("sub", 1) ELSE 1)
             + TreeFiles(kind, i + 1)

RECURSIVE TreeBytes(_, _)
TreeBytes(kind, i) ==
    IF i > Len(DirEntries(kind)) THEN 0
    ELSE (IF DirEntries(kind)[i] = "dir" THEN TreeBytes("sub", 1) ELSE FileSize(kind))
             + TreeBytes(kind, i + 1)

RECURSIVE FilesUnder(_, _)
FilesUnder(given, kinds) ==
    IF kinds = {} THEN 0
    ELSE LET k == CHOOSE x \in kinds : TRUE
         IN  given[k] * TreeFiles(k, 1) + FilesUnder(given, kinds \ {k})

RECURSIVE BytesUnder(_, _)
BytesUnder(given, kinds) ==
    IF kinds = {} THEN 0
    ELSE LET k == CHOOSE x \in kinds : TRUE
         IN  given[k] * TreeBytes(k, 1) + BytesUnder(given, kinds \ {k})

numCrawlers == 20

\* var tokens = make(chan struct{}, 20): its capacity.
tokensCap == 20

\* tokens <- struct{}{} puts one token in the channel; the variant forgets it.
TokensAfterAcquireNone(t) == t
TokensAfterAcquire(t) == t + 1

\* main: the goroutine that sends os.Args[1:] and the 20 crawlers start.
ReadArgs(n) ==
    /\ kpc = "start"
    /\ kpc' = "recv"
    /\ argsSender' = [i \in 1..n |-> i]
    /\ crawlers' = [crawlers EXCEPT !["idle"] = numCrawlers]
    /\ UNCHANGED <<list, seen, senders, tokens>>
    /\ UNCHANGED notCrawl

\* main: `for list := range worklist` receives os.Args[1:].
ReceiveArgs ==
    /\ kpc = "recv"
    /\ argsSender # NoList
    /\ kpc' = "list"
    /\ list' = argsSender
    /\ argsSender' = NoList
    /\ UNCHANGED <<seen, crawlers, senders, tokens>>
    /\ UNCHANGED notCrawl

\* main: `for list := range worklist` receives a crawler's foundLinks.
ReceiveFound(l) ==
    /\ kpc = "recv"
    /\ senders[l] > 0
    /\ kpc' = "list"
    /\ list' = l
    /\ senders' = [senders EXCEPT ![l] = @ - 1]
    /\ UNCHANGED <<argsSender, seen, crawlers, tokens>>
    /\ UNCHANGED notCrawl

\* main: the next link of the list is in seen.
SkipSeen ==
    /\ kpc = "list"
    /\ list # << >>
    /\ Head(list) \in seen
    /\ list' = Tail(list)
    /\ UNCHANGED <<kpc, argsSender, seen, crawlers, senders, tokens>>
    /\ UNCHANGED notCrawl

\* main: seen[link] = true; unseenLinks <- link, received by an idle crawler.
SendUnseen ==
    /\ kpc = "list"
    /\ list # << >>
    /\ Head(list) \notin seen
    /\ crawlers["idle"] > 0
    /\ seen' = seen \cup {Head(list)}
    /\ list' = Tail(list)
    /\ crawlers' = [crawlers EXCEPT !["idle"] = @ - 1, !["acquire"] = @ + 1]
    /\ UNCHANGED <<kpc, argsSender, senders, tokens>>
    /\ UNCHANGED notCrawl

\* main: the inner range is over; back to the range over worklist.
ListDone ==
    /\ kpc = "list"
    /\ list = << >>
    /\ kpc' = "recv"
    /\ UNCHANGED <<argsSender, list, seen, crawlers, senders, tokens>>
    /\ UNCHANGED notCrawl

\* crawl: tokens <- struct{}{}, which blocks while the channel is full.
AcquireToken ==
    /\ crawlers["acquire"] > 0
    /\ tokens < tokensCap
    /\ tokens' = TokensAfterAcquire(tokens)
    /\ crawlers' = [crawlers EXCEPT !["acquire"] = @ - 1, !["extract"] = @ + 1]
    /\ UNCHANGED <<kpc, argsSender, list, seen, senders>>
    /\ UNCHANGED notCrawl

\* crawl: links.Extract(url) returns.
ExtractReturn ==
    /\ crawlers["extract"] > 0
    /\ crawlers' = [crawlers EXCEPT !["extract"] = @ - 1, !["release"] = @ + 1]
    /\ UNCHANGED <<kpc, argsSender, list, seen, senders, tokens>>
    /\ UNCHANGED notCrawl

\* The crawler hands foundLinks to a goroutine of its own and is back at
\* the range over unseenLinks; in the variant the crawler does the send
\* itself and stays at it.
CrawlersAfterHandOffBlocked(cs) == [cs EXCEPT !["release"] = @ - 1]
CrawlersAfterHandOff(cs) == [cs EXCEPT !["release"] = @ - 1, !["idle"] = @ + 1]

\* crawl: <-tokens and return l, the list Extract produced; crawler:
\* go func() { worklist <- foundLinks }() and back to the range over
\* unseenLinks.
ReleaseToken(l) ==
    /\ crawlers["release"] > 0
    /\ tokens > 0
    /\ tokens' = tokens - 1
    /\ crawlers' = CrawlersAfterHandOff(crawlers)
    /\ senders' = [senders EXCEPT ![l] = @ + 1]
    /\ UNCHANGED <<kpc, argsSender, list, seen>>
    /\ UNCHANGED notCrawl

CrawlNext ==
    \/ \E n \in {1, 2, NumLinks} : ReadArgs(n)
    \/ ReceiveArgs
    \/ \E l \in FoundLists : ReceiveFound(l)
    \/ SkipSeen
    \/ SendUnseen
    \/ ListDone
    \/ AcquireToken
    \/ ExtractReturn
    \/ \E l \in FoundLists : ReleaseToken(l)

CrawlSpec == AllInit /\ [][CrawlNext]_allVars

\* The calls of links.Extract in progress.
ActiveRequests == crawlers["extract"]

\* C13: every active links.Extract call holds a token and the tokens
\* channel never holds more than 20, so at most 20 requests are active.
C13_AtMost20Requests ==
    /\ ActiveRequests <= tokens
    /\ tokens <= 20
    /\ ActiveRequests <= 20

C13_Witness ==
    /\ ActiveRequests = 20
    /\ tokens = 20
    /\ crawlers["idle"] = 0

\* Some goroutine that can run does run, and links.Extract returns.
CrawlFairSpec == AllInit /\ [][CrawlNext]_allVars /\ WF_allVars(CrawlNext)

Links == 1..NewLink

\* main is at `unseenLinks <- link` with the unseen link x.
Offers(x) == kpc = "list" /\ list # << >> /\ Head(list) = x /\ x \notin seen

\* A goroutine is at its send on worklist.
ListsPending == argsSender # NoList \/ \E l \in FoundLists : senders[l] > 0

\* main is at `unseenLinks <- link` with an unseen link.
Offering == \E x \in Links : Offers(x)

=============================================================================
